---- MODULE Spec2Model ----
(***************************************************************************)
(* Model of the TV-show recommender agent (src/src/agent.ts) and of its    *)
(* process bootstrap (src/src/index.ts).                                   *)
(*                                                                         *)
(* Strings are tuples of one-character strings, so that trim and           *)
(* toLowerCase are computed on characters.  An optional value (undefined,  *)
(* null) is the empty tuple None, a present value x is Some(x) = <<x>>.    *)
(* A rating is held in hundredths (8.5 is 850).                            *)
(***************************************************************************)
EXTENDS Integers, Sequences, FiniteSets, TLC

VARIABLES
    axClientConfigured,           \* axClient.ax is present
    DEFAULT_RECOMMENDATION_COUNT, \* module constant read from the environment
    usage,                        \* recommendationFlow's usage accumulator
    req,                          \* per request: the handler's position and locals
    shuttingDown,                 \* index.ts: let shuttingDown
    stopCalls,                    \* number of server.stop() calls made
    stopResult,                   \* what server.stop() did: "none" before the call
    microtasks,                   \* promise reactions queued and not yet run
    exitCode,                     \* None while running, Some(code) after process.exit
    signalsSeen,                  \* signals delivered to the process so far
    log                           \* console output of the shutdown path

handlerVars == <<axClientConfigured, DEFAULT_RECOMMENDATION_COUNT, usage, req>>
shutdownVars == <<shuttingDown, stopCalls, stopResult, microtasks, exitCode,
                  signalsSeen, log>>
vars == <<axClientConfigured, DEFAULT_RECOMMENDATION_COUNT, usage, req,
          shuttingDown, stopCalls, stopResult, microtasks, exitCode,
          signalsSeen, log>>

(***************************************************************************)
(* Bounds of the model                                                     *)
(***************************************************************************)
NumRequests == 2     \* requests in flight at once
MaxStrLen == 2       \* longest request filter / title string enumerated
MaxEnvLen == 2       \* longest DEFAULT_RECOMMENDATION_COUNT text enumerated
MaxItems == 2        \* longest LLM recommendations array enumerated
MaxSignals == 4      \* signals delivered to the process

(***************************************************************************)
(* Program constants                                                       *)
(***************************************************************************)
FALLBACK_COUNT == 5
MIN_COUNT == 1
MAX_COUNT == 10
MAX_FILTER_LEN == 32
MIN_YEAR == 1950
CurrentYear == 2026
MAX_LIST_LEN == 10
MAX_WHY_LEN == 400
MAX_TONE_LEN == 32
MAX_RATING == 1000

None == <<>>
Some(x) == <<x>>

(***************************************************************************)
(* String helpers                                                          *)
(***************************************************************************)
IsSpace(c) == c = " "

RECURSIVE trimStart(_)
trimStart(s) ==
    IF s = <<>> THEN <<>>
    ELSE IF IsSpace(Head(s)) THEN trimStart(Tail(s)) ELSE s

RECURSIVE trimEnd(_)
trimEnd(s) ==
    IF s = <<>> THEN <<>>
    ELSE IF IsSpace(s[Len(s)]) THEN trimEnd(SubSeq(s, 1, Len(s) - 1)) ELSE s

trim(s) == trimEnd(trimStart(s))

lowerChar(c) == IF c = "B" THEN "b" ELSE c

toLowerCase(s) == [i \in 1..Len(s) |-> lowerChar(s[i])]

RECURSIVE SeqsUpTo(_, _)
SeqsUpTo(S, n) ==
    IF n = 0 THEN {<<>>}
    ELSE LET shorter == SeqsUpTo(S, n - 1)
         IN  shorter \cup {Append(s, c) : s \in shorter, c \in S}

Range(s) == {s[i] : i \in 1..Len(s)}

RECURSIVE filterNonEmpty(_)
filterNonEmpty(list) ==
    IF list = <<>> THEN <<>>
    ELSE IF Head(list) = <<>> THEN filterNonEmpty(Tail(list))
         ELSE <<Head(list)>> \o filterNonEmpty(Tail(list))

(***************************************************************************)
(* clamp, safeParseInt, normalize                                          *)
(***************************************************************************)
Min2(a, b) == IF a < b THEN a ELSE b
Max2(a, b) == IF a > b THEN a ELSE b

clamp_noUpper(value, min, max) == Max2(value, min)

clamp(value, min, max) == Min2(Max2(value, min), max)

DigitValue(c) ==
    CASE c = "0" -> 0 [] c = "1" -> 1 [] c = "2" -> 2 [] c = "5" -> 5
      [] OTHER -> -1

IsDigit(c) == DigitValue(c) >= 0

RECURSIVE digitsPrefix(_, _, _)
\* the value of the leading decimal digits of s; seen says one was read
digitsPrefix(s, acc, seen) ==
    IF s = <<>> \/ ~IsDigit(Head(s))
    THEN [seen |-> seen, value |-> acc]
    ELSE digitsPrefix(Tail(s), acc * 10 + DigitValue(Head(s)), TRUE)

\* Number.parseInt(value, 10): leading whitespace, an optional sign, then
\* the longest run of digits; NaN when there is none.
parseInt(s) ==
    LET t == trimStart(s)
        neg == t # <<>> /\ Head(t) = "-"
        body == IF t # <<>> /\ Head(t) \in {"-", "+"} THEN Tail(t) ELSE t
        d == digitsPrefix(body, 0, FALSE)
    IN  [nan |-> ~d.seen, value |-> IF neg THEN 0 - d.value ELSE d.value]

safeParseInt(value, fallback) ==
    IF value = None \/ value[1] = <<>> THEN fallback
    ELSE LET parsed == parseInt(value[1])
         IN  IF ~parsed.nan /\ parsed.value > 0 THEN parsed.value ELSE fallback

normalize(value) ==
    IF value = None \/ value[1] = <<>> THEN None
    ELSE LET clean == toLowerCase(trim(value[1]))
         IN  IF clean = <<>> THEN None ELSE Some(clean)

(***************************************************************************)
(* inputSchema: the entrypoint's request validation                        *)
(***************************************************************************)
\* z.string().trim().min(1, ...).max(32, ...).optional()
filterIssues(field, emptyMessage) ==
    IF field = None THEN {}
    ELSE LET t == trim(field[1])
         IN  (IF Len(t) < 1 THEN {emptyMessage} ELSE {})
             \cup (IF Len(t) > MAX_FILTER_LEN THEN {"String is too long"} ELSE {})

\* z.number().int().min(1).max(10)
countIssues(field) ==
    IF field = None THEN {}
    ELSE (IF field[1] < MIN_COUNT THEN {"Number must be at least 1"} ELSE {})
         \cup (IF field[1] > MAX_COUNT THEN {"Number must be at most 10"} ELSE {})

trimmed(field) == IF field = None THEN None ELSE Some(trim(field[1]))

\* a JavaScript string is truthy when it is present and not empty
truthy(field) == field # None /\ field[1] # <<>>

refine_alwaysTrue(value) == TRUE

\* (value) => Boolean(value.genre || value.mood || value.platform)
refine(value) == truthy(value.genre) \/ truthy(value.mood) \/ truthy(value.platform)

\* .default(d).optional(): for an absent field the schema library hands on
\* either undefined or the default, depending on its version.
defaulted(field, d) == IF field = None THEN {None, Some(d)} ELSE {field}

\* The outcomes of inputSchema.parse(input): a set, one per behaviour of
\* .default().optional().
inputSchema(input) ==
    LET fieldIssues ==
            filterIssues(input.genre, "Genre cannot be empty")
            \cup filterIssues(input.mood, "Mood cannot be empty")
            \cup filterIssues(input.platform, "Platform cannot be empty")
            \cup countIssues(input.numberOfRecommendations)
        shaped == [genre |-> trimmed(input.genre),
                   mood |-> trimmed(input.mood),
                   platform |-> trimmed(input.platform)]
        refineIssues == IF refine(shaped) THEN {}
                        ELSE {"Provide at least one of genre, mood, or platform"}
        \* whether the refinement still runs after a field has failed depends
        \* on the schema library
        issueSets == IF fieldIssues = {} THEN {refineIssues}
                     ELSE {fieldIssues, fieldIssues \cup refineIssues}
    IN  { [ok |-> issues = {},
           issues |-> issues,
           value |-> [genre |-> shaped.genre,
                      mood |-> shaped.mood,
                      platform |-> shaped.platform,
                      includeClassics |-> ic,
                      numberOfRecommendations |-> n]] :
          issues \in issueSets,
          ic \in defaulted(input.includeClassics, TRUE),
          n \in defaulted(input.numberOfRecommendations,
                          DEFAULT_RECOMMENDATION_COUNT) }

(***************************************************************************)
(* buildRecommendationPrompt                                               *)
(***************************************************************************)
orAny(field) == IF field = None THEN <<"a", "n", "y">> ELSE field[1]

buildRecommendationPrompt(filters, recommendationCount) ==
    [genre |-> orAny(filters.genre),
     mood |-> orAny(filters.mood),
     platform |-> orAny(filters.platform),
     includeClassics |-> filters.includeClassics,
     returnExactly |-> recommendationCount,
     escapeHatch |-> "{\"recommendations\": []}"]

(***************************************************************************)
(* parseLlmRecommendations                                                 *)
(***************************************************************************)
nonEmptyEntries(list) == \A i \in 1..Len(list) : Len(list[i]) >= 1

yearInRange_noLowerBound(year) == year <= CurrentYear + 1

\* z.number().int().min(1950, ...).max(new Date().getFullYear() + 1)
yearInRange(year) == year >= MIN_YEAR /\ year <= CurrentYear + 1

\* z.number().min(0).max(10), in hundredths
ratingInRange(rating) == rating >= 0 /\ rating <= MAX_RATING

itemValid(item) ==
    /\ Len(item.title) >= 1
    /\ Len(item.synopsis) >= 1
    /\ nonEmptyEntries(item.whereToWatch) /\ Len(item.whereToWatch) <= MAX_LIST_LEN
    /\ Len(item.whyItMadeTheList) >= 1 /\ Len(item.whyItMadeTheList) <= MAX_WHY_LEN
    /\ yearInRange(item.year)
    /\ nonEmptyEntries(item.genres) /\ Len(item.genres) <= MAX_LIST_LEN
    /\ nonEmptyEntries(item.moods) /\ Len(item.moods) <= MAX_LIST_LEN
    /\ ratingInRange(item.rating)
    /\ Len(item.tone) >= 1 /\ Len(item.tone) <= MAX_TONE_LEN

\* .array(...).min(1).max(recommendationCount)
lengthValid(list, recommendationCount) ==
    Len(list) >= 1 /\ Len(list) <= recommendationCount

schemaAccepts(json, recommendationCount) ==
    /\ json.hasRecommendations
    /\ lengthValid(json.recommendations, recommendationCount)
    /\ \A i \in 1..Len(json.recommendations) : itemValid(json.recommendations[i])

trimEntries(list) == filterNonEmpty([i \in 1..Len(list) |-> trim(list[i])])

\* Number(rating.toFixed(1)): to the nearest tenth
toFixed1(rating) == ((rating + 5) \div 10) * 10

balanced == <<"b", "a", "l", "a", "n", "c", "e", "d">>

normaliseItem(item) ==
    [title |-> trim(item.title),
     synopsis |-> trim(item.synopsis),
     whereToWatch |-> trimEntries(item.whereToWatch),
     whyItMadeTheList |-> trim(item.whyItMadeTheList),
     year |-> item.year,
     genres |-> trimEntries(item.genres),
     moods |-> trimEntries(item.moods),
     rating |-> toFixed1(item.rating),
     tone |-> IF trim(item.tone) = <<>> THEN balanced ELSE trim(item.tone)]

\* raw is the text the flow returned: raw.valid says JSON.parse accepts it,
\* raw.json is then the value it parses to.
parseLlmRecommendations(raw, recommendationCount) ==
    IF ~raw.valid
    THEN [ok |-> FALSE, cause |-> "SyntaxError", value |-> <<>>]
    ELSE IF ~schemaAccepts(raw.json, recommendationCount)
    THEN [ok |-> FALSE, cause |-> "ZodError", value |-> <<>>]
    ELSE [ok |-> TRUE, cause |-> "none",
          value |-> [i \in 1..Len(raw.json.recommendations) |->
                        normaliseItem(raw.json.recommendations[i])]]

(***************************************************************************)
(* The recommend entrypoint's handler                                      *)
(***************************************************************************)
NOT_CONFIGURED == "Ax LLM provider not configured. Set OPENAI_API_KEY or provide a custom client."
PARSE_FAILED == "Failed to parse Ax LLM JSON response."
NO_RECOMMENDATIONS == "Ax LLM returned no recommendations - try broadening the filters."
INVALID_INPUT == "Invalid input"
PROVIDER_ERROR == "LLM provider error"

Error(message, cause, issues) ==
    [message |-> message, cause |-> cause, issues |-> issues]

\* a request the server has accepted and not yet dispatched
NewRequest ==
    [pc |-> "Start", input |-> None, filters |-> None, recommendationCount |-> 0,
     prompt |-> None, llmCalls |-> 0, structuredJson |-> None,
     usageEntry |-> None, response |-> None, error |-> None, stages |-> <<>>]

catchAndRethrow_fallback(rec, error) ==
    [rec EXCEPT !.pc = "Failed", !.error = Some(error),
                !.response = Some([recommendations |-> <<>>, totalMatches |-> 0,
                                   filtersApplied |-> rec.filters,
                                   fallbackApplied |-> TRUE])]

\* catch (error) { console.error(...); throw error; }
catchAndRethrow(rec, error) ==
    [rec EXCEPT !.pc = "Failed", !.error = Some(error)]

llmMissing_never(llm) == FALSE

\* if (!llm)
llmMissing(llm) == ~llm

\* The handler from its entry to the await of recommendationFlow.forward.
handlerStart(rec, input) ==
    LET recommendationCount ==
            clamp(IF input.numberOfRecommendations = None
                  THEN DEFAULT_RECOMMENDATION_COUNT
                  ELSE input.numberOfRecommendations[1],
                  MIN_COUNT, MAX_COUNT)
        filters == [genre |-> normalize(input.genre),
                    mood |-> normalize(input.mood),
                    platform |-> normalize(input.platform),
                    includeClassics |-> IF input.includeClassics = None THEN TRUE
                                        ELSE input.includeClassics[1]]
        normalised == [rec EXCEPT !.filters = Some(filters),
                                  !.recommendationCount = recommendationCount,
                                  !.stages = Append(@, "normalize")]
    IN  IF llmMissing(axClientConfigured)
        THEN catchAndRethrow(normalised, Error(NOT_CONFIGURED, "none", {}))
        ELSE [normalised EXCEPT
                !.prompt = Some(buildRecommendationPrompt(filters, recommendationCount)),
                !.llmCalls = @ + 1,
                !.stages = normalised.stages \o <<"prompt", "invoke">>,
                !.pc = "AwaitLlm"]

slice_dropLast(list, n) == SubSeq(list, 1, Min2(Len(list), n) - 1)

\* recommendations.slice(0, recommendationCount)
slice(list, n) == SubSeq(list, 1, Min2(Len(list), n))

\* usage.at(-1)
last(list) == IF list = <<>> THEN None ELSE Some(list[Len(list)])

\* The handler from the resolution of forward to its return or throw; acc is
\* what recommendationFlow.getUsage() returns at that moment.
handlerResume(rec, acc) ==
    LET structuredJson == rec.structuredJson[1]
        validated == [rec EXCEPT !.usageEntry = last(acc),
                                 !.stages = Append(@, "validate")]
        parsed == parseLlmRecommendations(structuredJson, rec.recommendationCount)
    IN  IF ~parsed.ok
        THEN catchAndRethrow(validated, Error(PARSE_FAILED, parsed.cause, {}))
        ELSE IF Len(parsed.value) = 0
        THEN catchAndRethrow(validated, Error(NO_RECOMMENDATIONS, "none", {}))
        ELSE [validated EXCEPT
                !.pc = "Done",
                !.stages = Append(@, "assemble"),
                !.response = Some(
                    [recommendations |-> slice(parsed.value, rec.recommendationCount),
                     totalMatches |-> Len(parsed.value),
                     filtersApplied |-> rec.filters[1],
                     fallbackApplied |-> FALSE])]

\* .returns(state => typeof structuredJson === "string" ? structuredJson : "")
flowReturns(out) ==
    IF out.isString THEN [valid |-> out.valid, json |-> out.json]
    ELSE [valid |-> FALSE, json |-> out.json]

(***************************************************************************)
(* Actions of the request pipeline                                         *)
(***************************************************************************)
\* The entrypoint receives request r: inputSchema is applied, and the
\* handler runs up to its await when the input is valid.
Invoke(r, Inputs) ==
    /\ req[r].pc = "Start"
    /\ \E input \in Inputs :
         \E parsed \in inputSchema(input) :
           LET rec == [req[r] EXCEPT !.input = Some(input)]
           IN  req' = [req EXCEPT ![r] =
                         IF parsed.ok
                         THEN handlerStart(rec, parsed.value)
                         ELSE [rec EXCEPT !.pc = "Failed",
                                 !.error = Some(Error(INVALID_INPUT, "ZodError",
                                                      parsed.issues))]]
    /\ UNCHANGED <<axClientConfigured, DEFAULT_RECOMMENDATION_COUNT, usage>>
    /\ UNCHANGED shutdownVars

\* The LLM call of request r completes: the flow records its usage entry in
\* the shared accumulator and resolves forward's promise.
LlmRespond(r, Outputs) ==
    /\ req[r].pc = "AwaitLlm"
    /\ \E out \in Outputs :
         req' = [req EXCEPT ![r].pc = "Resolved",
                            ![r].structuredJson = Some(flowReturns(out))]
    /\ usage' = Append(usage, [request |-> r, model |-> "gpt-5-mini"])
    /\ UNCHANGED <<axClientConfigured, DEFAULT_RECOMMENDATION_COUNT>>
    /\ UNCHANGED shutdownVars

\* The LLM call of request r fails: forward rejects and the handler's catch
\* block rethrows; the call may or may not have recorded usage before.
LlmFail(r) ==
    /\ req[r].pc = "AwaitLlm"
    /\ req' = [req EXCEPT ![r] =
                 catchAndRethrow(req[r], Error(PROVIDER_ERROR, "none", {}))]
    /\ \E recorded \in BOOLEAN :
         usage' = IF recorded
                  THEN Append(usage, [request |-> r, model |-> "gpt-5-mini"])
                  ELSE usage
    /\ UNCHANGED <<axClientConfigured, DEFAULT_RECOMMENDATION_COUNT>>
    /\ UNCHANGED shutdownVars

\* The handler of request r resumes after the await: getUsage().at(-1),
\* resetUsage(), then validation and the envelope.
HandlerResume(r) ==
    /\ req[r].pc = "Resolved"
    /\ req' = [req EXCEPT ![r] = handlerResume(req[r], usage)]
    /\ usage' = <<>>
    /\ UNCHANGED <<axClientConfigured, DEFAULT_RECOMMENDATION_COUNT>>
    /\ UNCHANGED shutdownVars

(***************************************************************************)
(* index.ts: graceful shutdown                                             *)
(***************************************************************************)
alreadyShuttingDown_never == FALSE

\* if (shuttingDown) return;
alreadyShuttingDown == shuttingDown

\* A signal is delivered and its listener runs handleShutdown(signal) to the
\* end of its synchronous part.  server.stop() throws, returns a value or
\* returns a promise.  Listeners run between tasks, so none runs while
\* promise reactions are queued.
handleShutdown(signal) ==
    /\ exitCode = None
    /\ microtasks = <<>>
    /\ Len(signalsSeen) < MaxSignals
    /\ signalsSeen' = Append(signalsSeen, signal)
    /\ IF alreadyShuttingDown
       THEN UNCHANGED <<shuttingDown, stopCalls, stopResult, microtasks,
                        exitCode, log>>
       ELSE /\ shuttingDown' = TRUE
            /\ stopCalls' = stopCalls + 1
            /\ microtasks' = microtasks
            /\ \E outcome \in {"threw", "returned", "pending"} :
                 /\ stopResult' = outcome
                 /\ log' = log \o
                      CASE outcome = "threw" ->
                             <<"Received", "Unexpected error while stopping server">>
                        [] outcome = "returned" ->
                             <<"Received", "Server stopped synchronously">>
                        [] OTHER -> <<"Received">>
                 /\ exitCode' = CASE outcome = "threw" -> Some(1)
                                  [] outcome = "returned" -> Some(0)
                                  [] OTHER -> None
    /\ UNCHANGED handlerVars

\* The promise server.stop() returned settles; its reactions are queued.
SettleStop ==
    /\ exitCode = None
    /\ stopResult = "pending"
    /\ \E settled \in {"resolved", "rejected"} :
         /\ stopResult' = settled
         /\ microtasks' = IF settled = "resolved" THEN <<"then", "finally">>
                          ELSE <<"catch", "finally">>
    /\ UNCHANGED <<shuttingDown, stopCalls, exitCode, signalsSeen, log>>
    /\ UNCHANGED handlerVars

\* The next queued reaction of the .then().catch().finally() chain runs.
RunMicrotask ==
    /\ exitCode = None
    /\ microtasks # <<>>
    /\ microtasks' = Tail(microtasks)
    /\ log' = CASE Head(microtasks) = "then" ->
                     Append(log, "Server stopped gracefully")
                [] Head(microtasks) = "catch" ->
                     Append(log, "Error during graceful shutdown")
                [] OTHER -> log
    /\ exitCode' = IF Head(microtasks) = "finally" THEN Some(0) ELSE None
    /\ UNCHANGED <<shuttingDown, stopCalls, stopResult, signalsSeen>>
    /\ UNCHANGED handlerVars

(***************************************************************************)
(* Inputs enumerated                                                       *)
(***************************************************************************)
Chars == {" ", "B"}
Strings == SeqsUpTo(Chars, MaxStrLen)
Optional(S) == {None} \cup {Some(x) : x \in S}

B == <<"B">>

Input(genre, mood, platform, includeClassics, n) ==
    [genre |-> genre, mood |-> mood, platform |-> platform,
     includeClassics |-> includeClassics, numberOfRecommendations |-> n]

\* requests varying the three filters
FilterInputs ==
    { Input(g, m, p, ic, None) :
        g \in Optional(Strings), m \in Optional(Strings),
        p \in Optional(Strings), ic \in {None, Some(FALSE)} }

\* requests varying numberOfRecommendations
CountInputs ==
    { Input(Some(B), None, None, None, n) :
        n \in Optional(0..(MAX_COUNT + 1)) }

\* requests asking for 1..MaxItems recommendations
SmallCountInputs ==
    { Input(Some(B), None, None, None, Some(n)) : n \in 1..MaxItems }

\* a few requests for the concurrent specification
SampleInputs ==
    { Input(None, None, None, None, None),
      Input(Some(<<" ", "B">>), None, None, None, Some(1)),
      Input(None, Some(B), None, Some(FALSE), None) }

EnvChars == {"0", "1", "2", "5", "-", "x", " "}
EnvValues == Optional(SeqsUpTo(EnvChars, MaxEnvLen))

BaseItem ==
    [title |-> B, synopsis |-> B, whereToWatch |-> <<B>>,
     whyItMadeTheList |-> B, year |-> 2022, genres |-> <<B>>,
     moods |-> <<B>>, rating |-> 850, tone |-> B]

Blank == {<<>>, <<" ">>}

\* the base item with one field varied
Items ==
    {[BaseItem EXCEPT !.title = t] : t \in Strings}
    \cup {[BaseItem EXCEPT !.synopsis = t] : t \in Blank}
    \cup {[BaseItem EXCEPT !.whyItMadeTheList = t] : t \in Blank}
    \cup {[BaseItem EXCEPT !.tone = t] : t \in Blank}
    \cup {[BaseItem EXCEPT !.whereToWatch = l] : l \in {<<>>, <<<<>>>>, <<<<" ">>, B>>}}
    \cup {[BaseItem EXCEPT !.year = y] :
            y \in {MIN_YEAR - 1, MIN_YEAR, CurrentYear + 1, CurrentYear + 2}}
    \cup {[BaseItem EXCEPT !.rating = x] :
            x \in {0 - 1, 0, 847, MAX_RATING, MAX_RATING + 1}}

Output(isString, valid, hasRecommendations, recommendations) ==
    [isString |-> isString, valid |-> valid,
     json |-> [hasRecommendations |-> hasRecommendations,
               recommendations |-> recommendations]]

NotAString == Output(FALSE, FALSE, FALSE, <<>>)
InvalidJson == Output(TRUE, FALSE, FALSE, <<>>)
WrongShape == Output(TRUE, TRUE, FALSE, <<>>)
Payload(list) == Output(TRUE, TRUE, TRUE, list)
\* {"recommendations": []}
EscapeHatch == Payload(<<>>)

AllOutputs ==
    {NotAString, InvalidJson, WrongShape}
    \cup {Payload(list) : list \in SeqsUpTo(Items, MaxItems)}

SampleOutputs == {InvalidJson, EscapeHatch, Payload(<<BaseItem>>)}

(***************************************************************************)
(* Specifications                                                          *)
(***************************************************************************)
InitShutdown ==
    /\ shuttingDown = FALSE
    /\ stopCalls = 0
    /\ stopResult = "none"
    /\ microtasks = <<>>
    /\ exitCode = None
    /\ signalsSeen = <<>>
    /\ log = <<>>

InitWith(Requests, Env, Configured) ==
    /\ axClientConfigured \in Configured
    /\ \E e \in Env :
         DEFAULT_RECOMMENDATION_COUNT = safeParseInt(e, FALLBACK_COUNT)
    /\ usage = <<>>
    /\ req = [r \in Requests |-> NewRequest]
    /\ InitShutdown

NextWith(Requests, Inputs, Outputs) ==
    \E r \in Requests :
        \/ Invoke(r, Inputs)
        \/ LlmRespond(r, Outputs)
        \/ LlmFail(r)
        \/ HandlerResume(r)

\* several requests in flight at once
Init == InitWith(1..NumRequests, {None}, BOOLEAN)
Next == NextWith(1..NumRequests, SampleInputs, SampleOutputs)
Spec == Init /\ [][Next]_vars

\* one request, every combination of filters
InitFilters == InitWith({1}, {None}, BOOLEAN)
NextFilters == NextWith({1}, FilterInputs, SampleOutputs)
SpecFilters == InitFilters /\ [][NextFilters]_vars

\* one request, every baseline and every numberOfRecommendations
InitCount == InitWith({1}, EnvValues, {TRUE})
NextCount == NextWith({1}, CountInputs, SampleOutputs)
SpecCount == InitCount /\ [][NextCount]_vars

\* one request, every LLM output
InitResponse == InitWith({1}, {None}, {TRUE})
NextResponse == NextWith({1}, SmallCountInputs, AllOutputs)
SpecResponse == InitResponse /\ [][NextResponse]_vars

\* the process and its signals
InitProcess == InitWith({1}, {None}, {TRUE})
NextProcess ==
    \/ \E signal \in {"SIGTERM", "SIGINT"} : handleShutdown(signal)
    \/ SettleStop
    \/ RunMicrotask
SpecShutdown ==
    InitProcess /\ [][NextProcess]_vars
    /\ WF_vars(SettleStop) /\ WF_vars(RunMicrotask)

(***************************************************************************)
(* Properties                                                              *)
(***************************************************************************)
Requests == DOMAIN req

\* request r's handler has resumed after its own LLM call
Resumed(r) == req[r].pc \in {"Done", "Failed"} /\ req[r].structuredJson # None

Succeeded(r) == req[r].pc = "Done"

FailedWith(r, message) ==
    req[r].pc = "Failed" /\ req[r].error # None /\ req[r].error[1].message = message

\* C1: the usage entry a request reads after its own LLM call is the entry
\* that call produced: never another request's entry, never missing.
C1_OwnUsageEntry ==
    \A r \in Requests :
        Resumed(r) =>
            /\ req[r].usageEntry # None
            /\ req[r].usageEntry[1].request = r

\* C2: when the LLM returns {"recommendations": []} the request fails with
\* the no-recommendations error, not with the parse/schema failure.
C2_EscapeHatchIsEmptyResult ==
    \A r \in Requests :
        (Resumed(r) /\ req[r].structuredJson[1] = flowReturns(EscapeHatch)) =>
            FailedWith(r, NO_RECOMMENDATIONS)

\* C3: in every successful response every recommendation's title, synopsis
\* and whyItMadeTheList is a non-empty string.
C3_TextFieldsNonEmpty ==
    \A r \in Requests :
        Succeeded(r) =>
            LET recs == req[r].response[1].recommendations
            IN  \A i \in 1..Len(recs) :
                    /\ recs[i].title # <<>>
                    /\ recs[i].synopsis # <<>>
                    /\ recs[i].whyItMadeTheList # <<>>

\* C4: a successful response holds between 1 and N recommendations, they are
\* the first items of the LLM's list in its order, and totalMatches is the
\* number of validated items before truncation.
C4_TruncationLaw ==
    \A r \in Requests :
        Succeeded(r) =>
            LET recs == req[r].response[1].recommendations
                given == req[r].structuredJson[1].json.recommendations
                N == req[r].recommendationCount
            IN  /\ Len(recs) >= 1 /\ Len(recs) <= N
                /\ Len(recs) = (IF Len(given) < N THEN Len(given) ELSE N)
                /\ \A i \in 1..Len(recs) : recs[i] = normaliseItem(given[i])
                /\ req[r].response[1].totalMatches = Len(given)

C4_Witness ==
    \E r \in Requests :
        /\ Succeeded(r)
        /\ req[r].recommendationCount = 2
        /\ Len(req[r].response[1].recommendations) = 2
        /\ req[r].response[1].recommendations[1]
             # req[r].response[1].recommendations[2]

\* C5: while no LLM client is configured, every request that reaches the
\* handler fails with the not-configured error and no LLM call is made.
C5_NotConfiguredNoCall ==
    ~axClientConfigured =>
        \A r \in Requests :
            /\ req[r].llmCalls = 0
            /\ req[r].prompt = None
            /\ req[r].stages # <<>> => FailedWith(r, NOT_CONFIGURED)

C5_Witness ==
    /\ ~axClientConfigured
    /\ \E r \in Requests : req[r].stages # <<>> /\ FailedWith(r, NOT_CONFIGURED)

AllSpaces(s) == \A i \in 1..Len(s) : s[i] = " "
NoFilter(field) == field = None \/ AllSpaces(field[1])
NoFilters(input) ==
    NoFilter(input.genre) /\ NoFilter(input.mood) /\ NoFilter(input.platform)

\* C6: a request whose genre, mood and platform are all absent, empty or
\* whitespace-only is rejected with a validation error before any LLM call;
\* a successful response has at least one non-null applied filter.
C6_FilterRequired ==
    \A r \in Requests :
        /\ (req[r].input # None /\ NoFilters(req[r].input[1])) =>
              /\ FailedWith(r, INVALID_INPUT)
              /\ req[r].llmCalls = 0
              /\ req[r].stages = <<>>
              /\ (\A f \in {req[r].input[1].genre, req[r].input[1].mood,
                            req[r].input[1].platform} : f = None) =>
                    "Provide at least one of genre, mood, or platform"
                        \in req[r].error[1].issues
        /\ Succeeded(r) =>
              LET applied == req[r].response[1].filtersApplied
              IN  applied.genre # None \/ applied.mood # None
                  \/ applied.platform # None

C6_Witness ==
    \E r \in Requests :
        /\ req[r].input # None
        /\ req[r].input[1].genre = Some(<<" ">>)
        /\ req[r].input[1].mood = None
        /\ req[r].input[1].platform = Some(<<>>)
        /\ FailedWith(r, INVALID_INPUT)

StageOrder == <<"normalize", "prompt", "invoke", "validate", "assemble">>

IsPrefix(s, t) == Len(s) <= Len(t) /\ s = SubSeq(t, 1, Len(s))

\* the errors a request may end with after the stages it entered
StageErrors(stages) ==
    CASE stages = <<>> -> {INVALID_INPUT}
      [] stages = SubSeq(StageOrder, 1, 1) -> {NOT_CONFIGURED}
      [] stages = SubSeq(StageOrder, 1, 3) -> {PROVIDER_ERROR}
      [] stages = SubSeq(StageOrder, 1, 4) -> {PARSE_FAILED, NO_RECOMMENDATIONS}
      [] OTHER -> {}

\* C7: a request makes at most one LLM call, goes through the stages in
\* order, and ends either with a full envelope (fallbackApplied false) or
\* with the failing stage's error and no envelope, never both.
C7_SinglePassNoFallback ==
    \A r \in Requests :
        /\ req[r].llmCalls <= 1
        /\ IsPrefix(req[r].stages, StageOrder)
        /\ req[r].llmCalls = (IF "invoke" \in Range(req[r].stages) THEN 1 ELSE 0)
        /\ req[r].pc = "Failed" =>
              /\ req[r].response = None
              /\ req[r].error # None
              /\ req[r].error[1].message \in StageErrors(req[r].stages)
        /\ req[r].pc = "Done" =>
              /\ req[r].stages = StageOrder
              /\ req[r].error = None
              /\ req[r].response # None
              /\ req[r].response[1].fallbackApplied = FALSE
        /\ req[r].pc \notin {"Done", "Failed"} =>
              req[r].response = None /\ req[r].error = None

C7_Witness ==
    \E r, q \in Requests :
        /\ Succeeded(r) /\ req[r].llmCalls = 1
        /\ FailedWith(q, PARSE_FAILED) /\ req[q].llmCalls = 1

BadYear(item) == item.year < 1950 \/ item.year > CurrentYear + 1
BadRating(item) == item.rating < 0 \/ item.rating > 10 * 100

\* C8: when any item's year is outside [1950, currentYear + 1] or its rating
\* outside [0, 10], or the array is empty or longer than the requested count,
\* the whole batch is rejected: the request fails and returns no item.
C8_WholeBatchRejected ==
    \A r \in Requests :
        (Resumed(r) /\ req[r].structuredJson[1].valid
                    /\ req[r].structuredJson[1].json.hasRecommendations) =>
            LET given == req[r].structuredJson[1].json.recommendations
            IN  (\/ \E i \in 1..Len(given) : BadYear(given[i]) \/ BadRating(given[i])
                 \/ Len(given) = 0
                 \/ Len(given) > req[r].recommendationCount) =>
                    /\ FailedWith(r, PARSE_FAILED)
                    /\ req[r].response = None

C8_Witness ==
    \E r \in Requests :
        /\ Resumed(r)
        /\ req[r].structuredJson[1].json.recommendations
             = <<BaseItem, [BaseItem EXCEPT !.year = 1949]>>
        /\ req[r].recommendationCount = 2
        /\ FailedWith(r, PARSE_FAILED)

====
